---- MODULE Spec2Model ----
(***************************************************************************)
(* Adaptive progress estimation of chef_context:                           *)
(*   lib/eta.ts            readETA / updateETA / clearETA                  *)
(*   lib/countdown.ts      startCountdown / Countdown.stop                 *)
(*   lib/smooth-finish.ts  smoothFinish                                    *)
(*   hooks/useAdaptiveProgress.ts   useAdaptiveProgress / runWithETA       *)
(*                                                                         *)
(* One hook instance (one etaKey, one defaultMs) is modelled together with *)
(* the localStorage entry of its key, the clock Date.now() and the timers  *)
(* the invocations of runWithETA create.  JavaScript runs every handler to *)
(* completion, microtasks included, so an action is one macrotask: the     *)
(* synchronous prefix of runWithETA, one interval tick, the continuation   *)
(* after the awaited task, the continuation after the dwell timer.         *)
(***************************************************************************)
EXTENDS Integers, Sequences, FiniteSets, TLC

\* ------------------------------------------------------------------ bounds
MaxRuns == 2       \* invocations of runWithETA on the instance
MaxCoarse == 1     \* clock instants: c * CoarseMs and c * CoarseMs + dwellMs

\* ------------------------------------------------------- program constants
MinETA == 5000             \* readETA: clamp(..., 5_000, ...)
MaxETA == 15 * 60000       \* readETA: clamp(..., 15 * 60_000)
DefMsETA == 60000          \* readETA: defMs = 60_000
stepMs == 100              \* startCountdown: stepMs = 100
dwellMs == 200             \* smoothFinish: dwellMs = 200
CoarseMs == 800 * stepMs   \* spacing of the coarse clock instants

\* --------------------------------------------------------------- optionals
\* number | null, string | null and NaN are modelled as tuples of length <= 1
Null == <<>>
Some(x) == <<x>>
IsNull(o) == o = <<>>
Val(o) == o[1]

\* ------------------------------------------------------------ lib/eta.ts
Min2(a, b) == IF a < b THEN a ELSE b
Max2(a, b) == IF a > b THEN a ELSE b

\* const clamp = (v, min, max) => Math.min(max, Math.max(min, v))
clamp(v, min, max) == Min2(max, Max2(min, v))

\* strings are sequences of one-character strings
Digits == <<"0", "1", "2", "3", "4", "5", "6", "7", "8", "9">>
IsDigit(c) == \E i \in 1..10 : Digits[i] = c
DigitVal(c) == (CHOOSE i \in 1..10 : Digits[i] = c) - 1
IsWhite(c) == c = " "

RECURSIVE SkipWhite(_)
SkipWhite(s) ==
  IF s # <<>> /\ IsWhite(Head(s)) THEN SkipWhite(Tail(s)) ELSE s

RECURSIVE DigitPrefix(_)
DigitPrefix(s) ==
  IF s # <<>> /\ IsDigit(Head(s))
    THEN <<Head(s)>> \o DigitPrefix(Tail(s))
    ELSE <<>>

RECURSIVE DigitsValue(_)
DigitsValue(d) ==
  IF d = <<>> THEN 0
  ELSE 10 * DigitsValue(SubSeq(d, 1, Len(d) - 1)) + DigitVal(d[Len(d)])

NaN == Null

\* parseInt(raw, 10): leading white space, an optional sign, the longest
\* prefix of decimal digits; NaN when there is no digit
parseInt(raw) ==
  LET t == SkipWhite(raw)
      neg == t # <<>> /\ Head(t) = "-"
      u == IF t # <<>> /\ Head(t) \in {"-", "+"} THEN Tail(t) ELSE t
      d == DigitPrefix(u)
  IN IF d = <<>> THEN NaN
     ELSE Some(IF neg THEN 0 - DigitsValue(d) ELSE DigitsValue(d))

RECURSIVE NatToString(_)
NatToString(n) ==
  IF n < 10 THEN <<Digits[n + 1]>>
  ELSE NatToString(n \div 10) \o <<Digits[(n % 10) + 1]>>

\* String(ema) of an integer
String(n) == IF n < 0 THEN <<"-">> \o NatToString(0 - n) ELSE NatToString(n)

\* an average that extrapolates beyond the new sample
RoundEMAExtrapolates(prev, elapsedMs) ==
  (16 * elapsedMs - 6 * prev + 5) \div 10

\* Math.round(prev * 0.6 + elapsedMs * 0.4).  The exact value (3p + 2e)/5 is
\* a multiple of 0.2, so it is never within 0.1 of a rounding boundary and
\* the double rounding error cannot change the result of Math.round.
RoundEMA(prev, elapsedMs) == (6 * prev + 4 * elapsedMs + 5) \div 10

\* readETA(key, defMs): hasWindow is typeof window !== "undefined", item is
\* the value of window.localStorage.getItem(key)
readETA(hasWindow, item, defMs) ==
  IF ~hasWindow THEN defMs
  ELSE LET truthy == ~IsNull(item) /\ Val(item) # <<>>
           v == IF truthy THEN parseInt(Val(item)) ELSE Some(defMs)
       IN clamp(IF v # NaN THEN Val(v) ELSE defMs, MinETA, MaxETA)

\* updateETA(key, elapsedMs): the string handed to localStorage.setItem
updateETA(item, elapsedMs) ==
  LET prev == readETA(TRUE, item, DefMsETA)
      ema == RoundEMA(prev, elapsedMs)
  IN String(ema)

\* ------------------------------------------- hooks/useAdaptiveProgress.ts
\* percent without Math.max(0, ...)
PercentNoFloor(expMs, remMs) ==
  IF IsNull(remMs) THEN [n |-> 0, d |-> 1]
  ELSE LET x == (expMs - Val(remMs)) * 100
       IN IF x > 100 * expMs THEN [n |-> 100, d |-> 1]
          ELSE [n |-> x, d |-> expMs]

\* percent, as the exact rational n/d of the double the code computes
Percent(expMs, remMs) ==
  IF IsNull(remMs) THEN [n |-> 0, d |-> 1]
  ELSE LET x == (expMs - Val(remMs)) * 100     \* x / expMs is the quotient
       IN IF x < 0 THEN [n |-> 0, d |-> 1]
          ELSE IF x > 100 * expMs THEN [n |-> 100, d |-> 1]
          ELSE [n |-> x, d |-> expMs]

\* ------------------------------------------------------------------ inputs
Runs == 1..MaxRuns
FineOffsets == {0, dwellMs}
Times == {c * CoarseMs + f : c \in 0..MaxCoarse, f \in FineOffsets}
LastTime == MaxCoarse * CoarseMs + dwellMs
Defaults == {120000}     \* useAdaptiveProgress("eta-generate-zip", 120_000)
Values == {"zip"}
Errors == {"network timeout"}
StorageErrors == {"SecurityError", "QuotaExceededError"}
RawInit == {Null, Some(<<"3", "0", "0", "0", "0", "0">>)}

\* The callers of lib/eta.ts: browser tabs of one origin, which share
\* window.localStorage, and the server render, where window is undefined.
Tabs == {"tab1", "tab2"}
Callers == Tabs \cup {"server"}
HasWindow(c) == c \in Tabs
\* what the key may hold before a call, the defMs and elapsedMs arguments
RawEta ==
  { Null, Some(<<>>), Some(<<"a", "b", "c">>),
    Some(<<"1", "2", "a", "b", "c">>),
    Some(<<"3", "0", "0", "0">>), Some(<<"5", "0", "0", "0">>),
    Some(<<"1", "0", "0", "0", "0">>),
    Some(<<"1", "0", "0", "0", "0", "0", "0">>) }
EtaDefaults == {1000, DefMsETA, 2000000}
Elapsed == {100, 20000, DefMsETA, 3000000}

VARIABLES
  now,          \* Date.now()
  store,        \* window.localStorage entry of etaKey: Null or Some(string)
  defaultMs,    \* the defaultMs argument of the hook instance
  expectedMs,   \* useState expectedMs
  remainingMs,  \* useState remainingMs: Null or Some(number)
  busy,         \* useState busy
  calls,        \* the invocations of runWithETA on the instance
  etaLib        \* direct calls of lib/eta.ts: their count, the latest one,
                \* and the updateETA calls between getItem and setItem

vars ==
  <<now, store, defaultMs, expectedMs, remainingMs, busy, calls, etaLib>>

percent == Percent(expectedMs, remainingMs)

\* One invocation of runWithETA:
\*   pc       "new" (not invoked), "await" (awaiting task()), "dwell"
\*            (awaiting the timer of smoothFinish), "done" (promise settled)
\*   eta, t0  the estimate read and the start time of its countdown
\*   timer    the setInterval of its countdown is active
\*   emitted  the value of its latest onTick
\*   dwellDue the time the setTimeout of smoothFinish is due
\*   task     how task() settled, ret what the invocation will return or
\*            throw after smoothFinish, outcome how its promise settled
\*   log      the calls it made, in order
NoCall ==
  [pc |-> "new", eta |-> 0, t0 |-> 0, timer |-> FALSE, emitted |-> 0,
   dwellDue |-> 0,
   task |-> Null, ret |-> Null, outcome |-> Null, log |-> <<>>]

Resolved(v) == Some([kind |-> "resolved", val |-> v])
Rejected(e) == Some([kind |-> "rejected", val |-> e])

\* A call of lib/eta.ts: the function, its caller, its defMs or elapsedMs
\* argument, the item getItem returned, the number returned (readETA) or
\* the string handed to setItem (updateETA), and the function and caller of
\* the call completed before it.
NoEtaCall ==
  [op |-> "none", caller |-> "none", arg |-> 0, item |-> Null,
   result |-> Null, after |-> "none", afterBy |-> "none"]
NoEtaLib == [n |-> 0, last |-> NoEtaCall, pend |-> [t \in Tabs |-> Null]]

Init ==
  /\ now = 0
  /\ store \in RawInit
  /\ defaultMs \in Defaults
  /\ expectedMs = readETA(TRUE, store, defaultMs)
  /\ remainingMs = Null
  /\ busy = FALSE
  /\ calls = [r \in Runs |-> NoCall]
  /\ etaLib = NoEtaLib

\* --------------------------------------------------- lib/countdown.ts
\* startCountdown(eta, setRemainingMs): t0 = now(), onTick(expectedMs),
\* setInterval
startCountdown(c, eta) ==
  [c EXCEPT !.eta = eta, !.t0 = now, !.timer = TRUE, !.emitted = eta]

\* an interval callback that passes the time elapsed, not the time left
tickRemainingCountsUp(c) == Min2(c.eta, now - c.t0)

\* an interval callback without Math.max(0, ..)
tickRemainingNoFloor(c) == c.eta - (now - c.t0)

\* the interval callback: onTick(Math.max(0, expectedMs - (now() - t0)))
tickRemaining(c) == Max2(0, c.eta - (now - c.t0))

\* a stop that reports the elapsed time but leaves the interval running
stopKeepsInterval(c) == [c EXCEPT !.log = Append(@, "stop")]

\* a stop that re-arms the interval when the interval is already cleared
stopToggles(c) == [c EXCEPT !.timer = ~@, !.log = Append(@, "stop")]

\* Countdown.stop: clearInterval(id); return { elapsedMs: now() - t0 }
stop(c) == [c EXCEPT !.timer = FALSE, !.log = Append(@, "stop")]

\* an elapsed time taken from what the ticks have counted down
elapsedMsFromTicks(c) == c.eta - c.emitted
elapsedMs(c) == now - c.t0

\* ------------------------------------------------ lib/smooth-finish.ts
\* smoothFinish up to its await: setRemainingMs(0), setTimeout(r, dwellMs).
\* The countdown was stopped before, its t0 and expectedMs are dead.
smoothFinish(c) ==
  [c EXCEPT !.pc = "dwell", !.dwellDue = now + dwellMs, !.eta = 0, !.t0 = 0,
            !.emitted = 0, !.log = Append(@, "finish")]

\* ------------------------------------------- hooks/useAdaptiveProgress.ts
\* runWithETA up to `await task()`.  getItem may throw (storage access
\* denied); readETA is called outside the try block, so the promise then
\* rejects with the storage error and no countdown is started.
RunWithETA(r) ==
  /\ calls[r].pc = "new"
  /\ \A q \in Runs : q < r => calls[q].pc # "new"
  /\ busy' = TRUE
  /\ \E getThrows \in BOOLEAN :
       IF getThrows
         THEN /\ calls' = [calls EXCEPT ![r].pc = "done",
                             ![r].outcome = Rejected("SecurityError")]
              /\ UNCHANGED <<expectedMs, remainingMs>>
         ELSE LET eta == readETA(TRUE, store, defaultMs)
              IN /\ expectedMs' = eta
                 /\ remainingMs' = Some(eta)
                 /\ calls' = [calls EXCEPT ![r] =
                                [startCountdown(@, eta) EXCEPT !.pc = "await"]]
  /\ UNCHANGED <<etaLib, now, store, defaultMs>>

\* an interval callback that clearInterval does not cancel
TickAfterClear(r) ==
  /\ calls[r].pc # "new"
  /\ now >= calls[r].t0 + stepMs
  /\ remainingMs' = Some(tickRemaining(calls[r]))
  /\ calls' = [calls EXCEPT ![r].emitted = tickRemaining(calls[r])]
  /\ UNCHANGED <<etaLib, now, store, defaultMs, expectedMs, busy>>

\* the setInterval callback of invocation r
Tick(r) ==
  /\ calls[r].timer
  /\ now >= calls[r].t0 + stepMs
  /\ remainingMs' = Some(tickRemaining(calls[r]))
  /\ calls' = [calls EXCEPT ![r].emitted = tickRemaining(calls[r])]
  /\ UNCHANGED <<etaLib, now, store, defaultMs, expectedMs, busy>>

\* task() resolved with v: the try block after the await, up to the await
\* of smoothFinish.  getItem or setItem may throw inside updateETA; that
\* lands in the catch block, which stops again and finishes.
TaskResolves(r, v) ==
  /\ calls[r].pc = "await"
  /\ now + dwellMs <= LastTime
  /\ \E fault \in {"none", "getItem", "setItem"} :
       LET c1 == stop([calls[r] EXCEPT !.task = Resolved(v)])
       IN IF fault = "none"
            THEN /\ store' = Some(updateETA(store, elapsedMs(calls[r])))
                 /\ calls' = [calls EXCEPT ![r] =
                      smoothFinish([c1 EXCEPT !.log = Append(@, "update"),
                                              !.ret = Resolved(v)])]
            ELSE /\ store' = store
                 /\ calls' = [calls EXCEPT ![r] =
                      smoothFinish([stop(c1) EXCEPT !.ret =
                         Rejected(IF fault = "getItem" THEN "SecurityError"
                                  ELSE "QuotaExceededError")])]
  /\ remainingMs' = Some(0)
  /\ UNCHANGED <<etaLib, now, defaultMs, expectedMs, busy>>

\* a catch block that rethrows without awaiting smoothFinish
TaskRejectsNoFinish(r, e) ==
  /\ calls[r].pc = "await"
  /\ now + dwellMs <= LastTime
  /\ calls' = [calls EXCEPT ![r] =
       [stop([calls[r] EXCEPT !.task = Rejected(e)])
          EXCEPT !.pc = "done", !.outcome = Rejected(e)]]
  /\ remainingMs' = Some(0)
  /\ UNCHANGED <<etaLib, now, store, defaultMs, expectedMs, busy>>

\* a catch block that also feeds the elapsed time into the estimate
TaskRejectsUpdates(r, e) ==
  /\ calls[r].pc = "await"
  /\ now + dwellMs <= LastTime
  /\ store' = Some(updateETA(store, elapsedMs(calls[r])))
  /\ calls' = [calls EXCEPT ![r] =
       smoothFinish([stop([calls[r] EXCEPT !.task = Rejected(e)])
                       EXCEPT !.ret = Rejected(e)])]
  /\ remainingMs' = Some(0)
  /\ UNCHANGED <<etaLib, now, defaultMs, expectedMs, busy>>

\* task() rejected with e: the catch block up to the await of smoothFinish
TaskRejects(r, e) ==
  /\ calls[r].pc = "await"
  /\ now + dwellMs <= LastTime
  /\ calls' = [calls EXCEPT ![r] =
       smoothFinish([stop([calls[r] EXCEPT !.task = Rejected(e)])
                       EXCEPT !.ret = Rejected(e)])]
  /\ remainingMs' = Some(0)
  /\ UNCHANGED <<etaLib, now, store, defaultMs, expectedMs, busy>>

\* the dwell timer fired: the rest of smoothFinish, setBusy(false) and
\* setRemainingMs(null), then `return result` or `throw e`; the locals of
\* the invocation (eta, countdown) are gone with its frame
DwellElapsed(r) ==
  /\ calls[r].pc = "dwell"
  /\ now >= calls[r].dwellDue
  /\ busy' = FALSE
  /\ remainingMs' = Null
  /\ calls' = [calls EXCEPT ![r] =
       [NoCall EXCEPT !.pc = "done", !.task = calls[r].task,
                      !.timer = calls[r].timer,
                      !.outcome = calls[r].ret,
                      !.log = Append(calls[r].log, "finished")]]
  /\ UNCHANGED <<etaLib, now, store, defaultMs, expectedMs>>

\* clearETA(key): localStorage.removeItem(key)
clearETA ==
  /\ store' = Null
  /\ UNCHANGED <<etaLib, now, defaultMs, expectedMs, remainingMs, busy, calls>>

\* Date.now() moves on to a later instant
Advance ==
  /\ \E t \in Times : t > now /\ now' = t
  /\ UNCHANGED <<etaLib, store, defaultMs, expectedMs, remainingMs, busy, calls>>

Next ==
  \/ \E r \in Runs : RunWithETA(r)
  \/ \E r \in Runs : Tick(r)
  \/ \E r \in Runs, v \in Values : TaskResolves(r, v)
  \/ \E r \in Runs, e \in Errors : TaskRejects(r, e)
  \/ \E r \in Runs : DwellElapsed(r)
  \/ clearETA
  \/ Advance

Spec == Init /\ [][Next]_vars

\* timers fire and the clock moves on
FairSpec ==
  /\ Spec
  /\ WF_vars(Advance)
  /\ \A r \in Runs : WF_vars(DwellElapsed(r))

\* ------------------------------------------- lib/eta.ts called directly
\* The three exported functions of lib/eta.ts under every caller and input.
\* A tab runs one function to completion (its JavaScript is single
\* threaded), but window.localStorage is shared by the tabs of an origin
\* without a lock, so another tab may run between the getItem and the
\* setItem of updateETA.
MaxCalls == 3      \* calls of lib/eta.ts

hookVars == <<now, defaultMs, expectedMs, remainingMs, busy, calls>>

EtaInit ==
  /\ now = 0
  /\ store \in RawEta
  /\ defaultMs \in Defaults
  /\ expectedMs = defaultMs
  /\ remainingMs = Null
  /\ busy = FALSE
  /\ calls = [r \in Runs |-> NoCall]
  /\ etaLib = NoEtaLib

CanCall(c) ==
  /\ etaLib.n < MaxCalls
  /\ c \in Tabs => IsNull(etaLib.pend[c])

Completed(c, op, arg, item, result) ==
  [op |-> op, caller |-> c, arg |-> arg, item |-> item, result |-> result,
   after |-> etaLib.last.op, afterBy |-> etaLib.last.caller]

\* readETA(key, defMs)
EtaRead(c, defMs) ==
  /\ CanCall(c)
  /\ etaLib' = [etaLib EXCEPT !.n = @ + 1, !.last =
       Completed(c, "read", defMs, IF HasWindow(c) THEN store ELSE Null,
                 Some(readETA(HasWindow(c), store, defMs)))]
  /\ UNCHANGED <<store, hookVars>>

\* updateETA(key, elapsedMs), line 12: prev = readETA(key). Where window
\* is undefined nothing else happens.
EtaUpdateRead(c, e) ==
  /\ CanCall(c)
  /\ etaLib' =
       IF HasWindow(c)
         THEN [etaLib EXCEPT !.n = @ + 1,
                             !.pend[c] = Some([elapsedMs |-> e, item |-> store])]
         ELSE [etaLib EXCEPT !.n = @ + 1,
                             !.last = Completed(c, "update", e, Null, Null)]
  /\ UNCHANGED <<store, hookVars>>

\* a setItem of the average of elapsedMs and the estimate stored by then
EtaUpdateWriteFresh(t) ==
  /\ ~IsNull(etaLib.pend[t])
  /\ LET u == Val(etaLib.pend[t])
         raw == updateETA(store, u.elapsedMs)
     IN /\ store' = Some(raw)
        /\ etaLib' = [etaLib EXCEPT !.pend[t] = Null, !.last =
             Completed(t, "update", u.elapsedMs, u.item, Some(raw))]
  /\ UNCHANGED hookVars

\* updateETA(key, elapsedMs), lines 13-14: the average of the estimate read
\* at line 12 and elapsedMs is handed to setItem.
EtaUpdateWrite(t) ==
  /\ ~IsNull(etaLib.pend[t])
  /\ LET u == Val(etaLib.pend[t])
         raw == updateETA(u.item, u.elapsedMs)
     IN /\ store' = Some(raw)
        /\ etaLib' = [etaLib EXCEPT !.pend[t] = Null, !.last =
             Completed(t, "update", u.elapsedMs, u.item, Some(raw))]
  /\ UNCHANGED hookVars

\* clearETA(key)
EtaClear(c) ==
  /\ CanCall(c)
  /\ store' = IF HasWindow(c) THEN Null ELSE store
  /\ etaLib' = [etaLib EXCEPT !.n = @ + 1, !.last =
       Completed(c, "clear", 0, Null, Null)]
  /\ UNCHANGED hookVars

EtaNext ==
  \/ \E c \in Callers, defMs \in EtaDefaults : EtaRead(c, defMs)
  \/ \E c \in Callers, e \in Elapsed : EtaUpdateRead(c, e)
  \/ \E t \in Tabs : EtaUpdateWrite(t)
  \/ \E c \in Callers : EtaClear(c)

EtaSpec == EtaInit /\ [][EtaNext]_vars

\* ------------------------------------------------------------ properties
Count(log, ev) == Cardinality({i \in 1..Len(log) : log[i] = ev})
TaskKind(c) == IF IsNull(c.task) THEN "pending" ELSE Val(c.task).kind
SessionActive(r) == calls[r].timer
Idle == \A r \in Runs : ~calls[r].timer /\ calls[r].pc # "dwell"
InRange(v) == MinETA <= v /\ v <= MaxETA
\* round(0.6 * p + 0.4 * e) for naturals p and e
Blend(p, e) == (6 * p + 4 * e + 5) \div 10
Settles(r) == calls[r].outcome = Null /\ calls'[r].outcome # Null

\* C1: when the task rejects with e, the promise of runWithETA rejects with
\* the same e, and at the step in which it does the countdown was stopped,
\* smoothFinish has completed, busy is false and remainingMs is null.
C1_RejectionAfterCleanup ==
  [][\A r \in Runs :
       (Settles(r) /\ TaskKind(calls'[r]) = "rejected") =>
         /\ calls'[r].outcome = calls'[r].task
         /\ calls'[r].log = <<"stop", "finish", "finished">>
         /\ ~calls'[r].timer
         /\ busy' = FALSE
         /\ remainingMs' = Null]_vars

C1_Witness ==
  \E r \in Runs :
    /\ calls[r].outcome = Rejected("network timeout")
    /\ calls[r].task = Rejected("network timeout")
    /\ busy = FALSE
    /\ remainingMs = Null

\* C2: the persisted estimate changes only in the update step of a run
\* whose task resolved, or by clearETA; the steps of a run whose task
\* rejects, the reads, the ticks and the completion transition leave it.
C2_StoreWrittenOnlyOnSuccess ==
  [][store' # store =>
       \/ store' = Null /\ calls' = calls
       \/ \E r \in Runs :
            /\ calls[r].pc = "await"
            /\ TaskKind(calls'[r]) = "resolved"
            /\ calls'[r].log = <<"stop", "update", "finish">>]_vars

C2_Witness ==
  \E r \in Runs :
    /\ calls[r].pc = "done"
    /\ TaskKind(calls[r]) = "rejected"
    /\ now > 0
    /\ store \in RawInit
    /\ store # Null

\* C3: a first successful run on a key without persisted value, with default
\* D (the estimate it read) and elapsed time E, persists
\* round(0.6 * D + 0.4 * E).
C3_FirstRunBlendsDefault ==
  [][\A r \in Runs :
       (/\ calls[r].pc = "await"
        /\ store = Null
        /\ calls[r].eta = defaultMs
        /\ calls'[r].ret = calls'[r].task
        /\ TaskKind(calls'[r]) = "resolved") =>
         store' = Some(String(RoundEMA(defaultMs, now - calls[r].t0)))]_vars

\* C4: no failure of the persistence layer reaches the caller: a settled
\* invocation resolved with the value of its task or rejected with the
\* error of its task.
C4_OnlyTaskFailureSurfaces ==
  \A r \in Runs :
    calls[r].outcome # Null => calls[r].outcome = calls[r].task

\* C5: percent is in [0, 100]; it is 0 when remainingMs is null and
\* clamp(((expectedMs - remainingMs) / expectedMs) * 100, 0, 100) otherwise
\* (75 for 1000 and 250, 0 for 1000 and 1200).
C5_PercentRange ==
  /\ percent.d > 0
  /\ 0 <= percent.n
  /\ percent.n <= 100 * percent.d
  /\ IsNull(remainingMs) => percent.n = 0
  /\ ~IsNull(remainingMs) =>
       LET q == Max2(0, Min2(100 * expectedMs,
                             (expectedMs - Val(remainingMs)) * 100))
       IN \* percent.n / percent.d = q / expectedMs
          IF percent.d = expectedMs THEN percent.n = q
          ELSE percent.d = 1 /\ percent.n * expectedMs = q
  /\ Percent(1000, Some(250)).n = 75 * Percent(1000, Some(250)).d
  /\ Percent(1000, Some(1200)).n = 0
  /\ Percent(1000, Null).n = 0

C5_Witness ==
  /\ ~IsNull(remainingMs)
  /\ Val(remainingMs) > expectedMs
  /\ percent.n = 0

\* C6: remainingMs is null exactly when the controller is idle: no countdown
\* session is active and no completion transition is in its dwell.
C6_NullIffIdle == IsNull(remainingMs) <=> Idle

\* C7: at most one countdown session is active at any time.
C7_AtMostOneSession == Cardinality({r \in Runs : SessionActive(r)}) <= 1

\* C8: an invocation whose task settled has called stop exactly once and
\* smoothFinish exactly once.
C8_StopAndFinishOnce ==
  \A r \in Runs :
    ~IsNull(calls[r].task) =>
      /\ Count(calls[r].log, "stop") = 1
      /\ Count(calls[r].log, "finish") = 1

C10_ResolvesAfterStopUpdateFinish ==
  \A r \in Runs :
    (TaskKind(calls[r]) = "resolved" /\ calls[r].pc = "done") =>
      /\ calls[r].outcome = calls[r].task
      /\ calls[r].log = <<"stop", "update", "finish", "finished">>

\* C15: once stop() of a countdown has returned, its interval is cleared
\* and onTick is never invoked by it again, not even for a tick that was
\* due when stop was called.
C15_NoTickAfterStop ==
  [][\A r \in Runs : Count(calls[r].log, "stop") > 0 =>
       ~calls[r].timer /\ ~Tick(r)]_vars

C15_Witness ==
  \E r \in Runs :
    /\ Count(calls[r].log, "stop") = 1
    /\ calls[r].pc = "dwell"
    /\ now >= calls[r].dwellDue
    /\ ~calls[r].timer
    /\ remainingMs = Some(0)

\* C16: a countdown started with an estimate E in [5_000, 900_000] first
\* passes E to onTick, synchronously; the values it passes afterwards never
\* increase, are never negative, and each equals
\* max(0, E - time elapsed since the start).
C16_TickSequence ==
  [][\A r \in Runs :
       /\ (calls[r].pc = "new" /\ calls'[r].timer) =>
            /\ InRange(calls'[r].eta)
            /\ calls'[r].emitted = calls'[r].eta
            /\ remainingMs' = Some(calls'[r].eta)
       /\ (calls[r].timer /\ calls'[r].timer) =>
            /\ calls'[r].emitted <= calls[r].emitted
            /\ calls'[r].emitted >= 0
            /\ Tick(r) =>
                 /\ calls'[r].emitted =
                      Max2(0, calls[r].eta - (now - calls[r].t0))
                 /\ remainingMs' = Some(calls'[r].emitted)]_vars

C16_Witness ==
  \E r \in Runs :
    /\ calls[r].timer
    /\ 0 < calls[r].emitted
    /\ calls[r].emitted < calls[r].eta
    /\ calls[r].emitted = calls[r].eta - (now - calls[r].t0)

\* C17: smoothFinish first sets remainingMs to 0 (percent 100) with busy
\* still true, busy stays true and remainingMs 0 for the whole dwell, and
\* only when the dwell has elapsed busy becomes false and remainingMs
\* null, from a state in which remainingMs was 0.
C17_FinishHoldsZeroThroughDwell ==
  /\ [](\A r \in Runs : calls[r].pc = "dwell" =>
          busy = TRUE /\ remainingMs = Some(0))
  /\ [][\A r \in Runs :
          /\ (calls[r].pc = "await" /\ calls'[r].pc = "dwell") =>
               /\ remainingMs' = Some(0)
               /\ percent'.n = 100 * percent'.d
               /\ busy' = TRUE
          /\ (calls[r].pc = "dwell" /\ calls'[r].pc = "done") =>
               /\ now >= calls[r].dwellDue
               /\ remainingMs = Some(0)
               /\ busy' = FALSE
               /\ remainingMs' = Null]_vars

\* C19: every invocation of runWithETA goes through the phases in the
\* order Idle, Running (awaiting the task), Finishing (the dwell), Idle,
\* whether the task resolves or rejects, skipping none and never going
\* back; updateETA is called only when the task resolved, after stop and
\* before smoothFinish.
C19_PhaseOrder ==
  /\ [][\A r \in Runs : calls'[r].pc # calls[r].pc =>
          <<calls[r].pc, calls'[r].pc>> \in
            {<<"new", "await">>, <<"await", "dwell">>, <<"dwell", "done">>}]_vars
  /\ [](\A r \in Runs : Count(calls[r].log, "update") > 0 =>
          /\ TaskKind(calls[r]) = "resolved"
          /\ SubSeq(calls[r].log, 1, 2) = <<"stop", "update">>
          /\ Count(calls[r].log, "update") = 1
          /\ Len(calls[r].log) > 2 => calls[r].log[3] = "finish")

\* C21: when the task overruns the estimate the countdown reaches 0 and
\* every further tick passes 0; that neither cancels nor settles the task,
\* and as long as the task is pending the hook stays busy with
\* remainingMs = 0 and percent = 100.
Overrun(r) == calls[r].timer /\ now - calls[r].t0 >= calls[r].eta
C21_OverrunHoldsZero ==
  /\ [][\A r \in Runs : (Overrun(r) /\ Tick(r)) =>
          /\ calls'[r].emitted = 0
          /\ remainingMs' = Some(0)
          /\ calls'[r].timer
          /\ calls'[r].pc = "await"
          /\ IsNull(calls'[r].task)]_vars
  /\ [](\A r \in Runs : (calls[r].timer /\ calls[r].emitted = 0) =>
          /\ calls[r].pc = "await"
          /\ IsNull(calls[r].task)
          /\ busy = TRUE
          /\ remainingMs = Some(0)
          /\ percent.n = 100 * percent.d)

\* C24: stop() returns as elapsedMs the clock time that passed between
\* startCountdown and stop (it is what updateETA then blends), also when
\* stop is called before any interval tick has fired: then the only
\* onTick delivered is the initial one and elapsedMs is the true elapsed
\* time, not zero.
C24_StopReturnsTrueElapsed ==
  [][\A r \in Runs :
       (calls[r].pc = "await" /\ Count(calls'[r].log, "update") = 1) =>
         LET T == now - calls[r].t0
             prev == readETA(TRUE, store, DefMsETA)
         IN /\ T >= 0
            /\ store' = Some(String(Blend(prev, T)))
            /\ (calls[r].emitted = calls[r].eta /\ T > 0) =>
                 store' # Some(String(Blend(prev, 0)))]_vars

C24_Witness ==
  \E r \in Runs :
    /\ calls[r].pc = "dwell"
    /\ calls[r].log = <<"stop", "update", "finish">>
    /\ calls[r].dwellDue = now + dwellMs
    /\ store = Some(String(Blend(300000, 200)))

\* C25: calling stop() again on a stopped countdown leaves its interval
\* cleared, causes no further onTick and does not fail: the invocation
\* goes on to smoothFinish and rejects with the error it caught, not with
\* one thrown by stop.
C25_StopIdempotent ==
  /\ [](\A r \in Runs : Count(calls[r].log, "stop") >= 2 =>
          /\ ~calls[r].timer
          /\ SubSeq(calls[r].log, 1, 3) = <<"stop", "stop", "finish">>
          /\ calls[r].pc = "dwell" =>
               calls[r].ret \in {Rejected("SecurityError"),
                                 Rejected("QuotaExceededError")})
  /\ [][\A r \in Runs : Count(calls[r].log, "stop") >= 2 => ~Tick(r)]_vars

C25_Witness ==
  \E r \in Runs :
    /\ Count(calls[r].log, "stop") = 2
    /\ calls[r].pc = "done"
    /\ ~calls[r].timer
    /\ now >= CoarseMs

\* C26: whenever remainingMs is not null, 0 <= remainingMs <= expectedMs
\* for the expectedMs exposed in the same state.
C26_RemainingWithinExpected ==
  ~IsNull(remainingMs) =>
    0 <= Val(remainingMs) /\ Val(remainingMs) <= expectedMs

\* C27: busy is true in every state in which a countdown of the hook is
\* active or a dwell of smoothFinish is pending; the end of an earlier
\* invocation's dwell does not set busy to false, or remainingMs to null,
\* while a later invocation's task is still pending.
C27_BusyWhileAnyRunPending ==
  /\ [](\A r \in Runs :
          (calls[r].timer \/ calls[r].pc = "dwell") => busy = TRUE)
  /\ [][\A r, q \in Runs :
          (calls[r].pc = "dwell" /\ calls'[r].pc = "done"
           /\ calls[q].pc = "await") =>
            busy' = TRUE /\ ~IsNull(remainingMs')]_vars

\* C28: within a single run (no other invocation of the hook) percent is
\* 0 when the countdown starts, never decreases from one state to the next
\* while remainingMs is not null, is 100 once smoothFinish has begun, and
\* drops back to 0 only in the step that sets remainingMs to null, the
\* end of the dwell.
PercentLeq(p, q) ==
  IF p.d = q.d THEN p.n <= q.n
  ELSE IF p.d = 1 THEN p.n = 0 \/ q.n = 100 * q.d
  ELSE IF q.d = 1 THEN q.n = 100 \/ p.n = 0
  ELSE FALSE
C28_PercentMonotone ==
  [][\A r \in Runs :
       (\A q \in Runs \ {r} : calls[q].pc = "new" /\ calls'[q].pc = "new") =>
         /\ (calls[r].pc = "new" /\ calls'[r].pc = "await") =>
              percent'.n = 0 /\ ~IsNull(remainingMs')
         /\ (calls[r].pc = "await" /\ calls'[r].pc = "dwell") =>
              percent'.n = 100 * percent'.d
         /\ calls[r].pc \in {"await", "dwell"} =>
              /\ ~IsNull(remainingMs)
              /\ IF IsNull(remainingMs')
                   THEN /\ calls[r].pc = "dwell"
                        /\ calls'[r].pc = "done"
                        /\ percent.n = 100 * percent.d
                        /\ percent'.n = 0
                   ELSE PercentLeq(percent, percent')]_vars

C28_Witness ==
  \E r \in Runs :
    /\ calls[r].timer
    /\ \A q \in Runs \ {r} : calls[q].pc = "new"
    /\ 0 < percent.n
    /\ percent.n < 100 * percent.d

\* ------------------------------------------- properties of lib/eta.ts
\* a stored value that is a decimal numeral and nothing else
IsNumeral(item) ==
  /\ ~IsNull(item)
  /\ Val(item) # <<>>
  /\ \A i \in 1..Len(Val(item)) : IsDigit(Val(item)[i])
Numeral(item) == DigitsValue(Val(item))
LastRead == etaLib.last.op = "read"
LastUpdate == etaLib.last.op = "update" /\ HasWindow(etaLib.last.caller)

\* C11: updateETA(key, E) on a key whose persisted estimate is P, with P in
\* [5_000, 900_000], persists round(0.6 * P + 0.4 * E) clamped to
\* [5_000, 900_000]; for P = 10_000 and E = 20_000 it persists 14_000.
C11_UpdatePersistsClampedBlend ==
  /\ updateETA(Some(String(10000)), 20000) = String(14000)
  /\ (LastUpdate /\ IsNumeral(etaLib.last.item)
        /\ InRange(Numeral(etaLib.last.item))) =>
       store = Some(String(clamp(Blend(Numeral(etaLib.last.item),
                                       etaLib.last.arg), MinETA, MaxETA)))

\* C12: readETA(key, defaultMs) returns the clamped defaultMs whenever the
\* stored value is absent or is not a numeric string ("abc" with default
\* 60_000 gives 60_000), and the stored number when the value is present
\* and numeric (here: a numeral within the range, where clamping is moot).
C12_ReadFallsBackToDefault ==
  /\ readETA(TRUE, Some(<<"a", "b", "c">>), 60000) = 60000
  /\ (LastRead /\ HasWindow(etaLib.last.caller)) =>
       IF IsNumeral(etaLib.last.item)
         THEN InRange(Numeral(etaLib.last.item)) =>
                etaLib.last.result = Some(Numeral(etaLib.last.item))
         ELSE etaLib.last.result =
                Some(clamp(etaLib.last.arg, MinETA, MaxETA))

\* C13: the number readETA returns lies in [5_000, 900_000] for every
\* stored content and every defaultMs, also where there is no storage.
C13_ReadResultInRange ==
  LastRead => InRange(Val(etaLib.last.result))

\* C14: after every updateETA the value persisted under the key lies in
\* [5_000, 900_000], whatever the previous value and the elapsed time.
C14_PersistedInRange ==
  LastUpdate =>
    /\ store = etaLib.last.result
    /\ IsNumeral(store)
    /\ InRange(Numeral(store))

\* C18: after clearETA(key) the next readETA(key, defaultMs) in the same
\* environment (the tabs sharing the storage, or the server) returns the
\* clamped defaultMs, whatever was persisted before the clear.
C18_ReadAfterClear ==
  (/\ LastRead
   /\ etaLib.last.after = "clear"
   /\ HasWindow(etaLib.last.afterBy) = HasWindow(etaLib.last.caller)) =>
    /\ IsNull(etaLib.last.item)
    /\ etaLib.last.result = Some(clamp(etaLib.last.arg, MinETA, MaxETA))

C22_UpdateSeedsWithElapsed ==
  (/\ LastUpdate
   /\ \/ IsNull(etaLib.last.item)
      \/ Val(etaLib.last.item) = <<>>
      \/ parseInt(Val(etaLib.last.item)) = NaN) =>
    LET E == etaLib.last.arg
    IN /\ store = Some(String(clamp(Blend(clamp(E, MinETA, MaxETA), E),
                                    MinETA, MaxETA)))
       /\ InRange(E) => store = Some(String(E))

\* C23: a stored estimate that is numeric but outside [5_000, 900_000] is
\* replaced by the clamped defaultMs, as a missing or non-numeric one is.
C23_OutOfRangeReadsDefault ==
  (/\ LastRead
   /\ HasWindow(etaLib.last.caller)
   /\ IsNumeral(etaLib.last.item)
   /\ ~InRange(Numeral(etaLib.last.item))) =>
    etaLib.last.result = Some(clamp(etaLib.last.arg, MinETA, MaxETA))

\* C29: the value updateETA writes lies between the previous estimate it
\* read and the elapsed time, inclusive; when the elapsed time equals the
\* previous estimate the estimate stays what it was; and for an elapsed
\* time within [5_000, 900_000] the next read returns the value written,
\* so repeated updates with a constant E move the estimate monotonically
\* toward E and never past it.
C29_UpdateMovesTowardElapsed ==
  LastUpdate =>
    LET prev == readETA(TRUE, etaLib.last.item, DefMsETA)
        E == etaLib.last.arg
        written == Val(parseInt(Val(etaLib.last.result)))
    IN /\ String(written) = Val(etaLib.last.result)
       /\ Min2(prev, E) <= written
       /\ written <= Max2(prev, E)
       /\ E = prev => written = prev
       /\ InRange(E) => readETA(TRUE, etaLib.last.result, DefMsETA) = written

\* the second of two updates with E = 20_000 from "10000":
\* 10_000, 14_000, 16_400
C29_Witness ==
  /\ LastUpdate
  /\ etaLib.last.after = "update"
  /\ etaLib.last.afterBy = etaLib.last.caller
  /\ etaLib.last.arg = 20000
  /\ etaLib.last.item = Some(String(14000))
  /\ store = Some(String(16400))
====
